---------------------------- MODULE Spec2Model ----------------------------
(***************************************************************************)
(* Model of the clippings parser (src/src/file_parser.rs).                 *)
(*                                                                         *)
(* A string is a sequence of one-character strings, so that the two        *)
(* regular expressions of parse_entry, str::split and str::parse work on   *)
(* characters as they do in the program.  A u64 is kept as its canonical   *)
(* decimal numeral (no leading zero), because 2^64 - 1 is beyond TLC's     *)
(* integers; two u64 are equal iff their canonical numerals are.           *)
(*                                                                         *)
(* A Result<T, E> is [tag |-> "Ok", val |-> v] or                          *)
(* [tag |-> "Err", err |-> variant, payload |-> string]; a panic (unwrap   *)
(* of None, index out of bounds) aborts the process and is the third       *)
(* outcome [tag |-> "Panic", at |-> source line].                          *)
(***************************************************************************)
EXTENDS Naturals, Sequences, FiniteSets

VARIABLES
    stream,        \* parse_lines: the items Lines<BufReader<File>> yields
    pos,           \* parse_lines: index of the next item to pull
    cur,           \* parse_lines: the lines of the group being accumulated
    entries,       \* parse_lines: the entries collected so far
    groups,        \* parse_lines: every group handed to parse_entry, in order
    result,        \* parse_lines: the value returned (or the abort)
    pc,            \* parse_lines: "reading" or "done"
    lines,         \* parse_entry called alone: its argument
    entry_result,  \* parse_entry called alone: its outcome
    s,             \* Location::from_str called alone: its argument
    loc_result     \* Location::from_str called alone: its outcome

vars == <<stream, pos, cur, entries, groups, result, pc,
          lines, entry_result, s, loc_result>>

(***************************************************************************)
(* Bounds of the model.                                                    *)
(***************************************************************************)
MaxLines == 5      \* longest line stream over the small line alphabet
MaxBlocks == 3     \* most entry blocks in a block-built line stream
MaxLocLen == 4     \* longest argument of Location::from_str enumerated
MaxGroupLen == 4   \* most lines in a group given to parse_entry alone

(***************************************************************************)
(* String literals of the program.                                         *)
(***************************************************************************)
SEPARATOR == <<"=","=","=","=","=","=","=","=","=","=">>
LitYour == <<"-"," ","Y","o","u","r"," ">>
LitOn == <<" ","o","n">>
LitPage == <<" ","p","a","g","e"," ">>
LitBar == <<" ","|">>
LitLocation == <<" ","L","o","c","a","t","i","o","n"," ">>
LitAdded == <<" ","|"," ","A","d","d","e","d"," ","o","n"," ">>
LitSpaceParen == <<" ","(">>
StrHighlight == <<"H","i","g","h","l","i","g","h","t">>
StrNote == <<"N","o","t","e">>
StrBookmark == <<"B","o","o","k","m","a","r","k">>
U64_MAX_DIGITS == <<"1","8","4","4","6","7","4","4","0","7","3","7","0","9","5","5","1","6","1","5">>

Digits == <<"0","1","2","3","4","5","6","7","8","9">>
DigitSet == {Digits[i] : i \in 1..10}
LocChars == DigitSet \cup {"-"}

(***************************************************************************)
(* Result values.                                                          *)
(***************************************************************************)
Ok(v) == [tag |-> "Ok", val |-> v]
Err(variant, text) == [tag |-> "Err", err |-> variant, payload |-> text]
Panic(where) == [tag |-> "Panic", at |-> where]
IsOk(r) == r.tag = "Ok"
IsErr(r) == r.tag = "Err"
IsPanic(r) == r.tag = "Panic"

(***************************************************************************)
(* String helpers.                                                         *)
(***************************************************************************)
SetMax(S) == CHOOSE x \in S : \A y \in S : y <= x

\* the literal lit stands in str at index i
StartsAt(str, i, lit) ==
    /\ i >= 1
    /\ i + Len(lit) - 1 <= Len(str)
    /\ SubSeq(str, i, i + Len(lit) - 1) = lit

\* last index of the longest run of characters of class that starts at i
\* (i - 1 when str[i] is not of the class): a greedy [class]+ or [class]*
RunEnd(str, i, class) ==
    SetMax({e \in (i - 1)..Len(str) : \A k \in i..e : str[k] \in class})

DigitVal(c) == CHOOSE d \in 0..9 : Digits[d + 1] = c

\* the canonical numeral of a non-empty digit string: leading zeros dropped
RECURSIVE Canon(_)
Canon(ds) ==
    IF Len(ds) > 1 /\ ds[1] = "0" THEN Canon(Tail(ds)) ELSE ds

\* a <= b for digit strings of the same length
RECURSIVE NumeralLeq(_, _)
NumeralLeq(a, b) ==
    IF a = <<>> THEN TRUE
    ELSE IF a[1] = b[1] THEN NumeralLeq(Tail(a), Tail(b))
    ELSE DigitVal(a[1]) < DigitVal(b[1])

\* the canonical numeral c is at most u64::MAX
FitsU64(c) ==
    \/ Len(c) < Len(U64_MAX_DIGITS)
    \/ Len(c) = Len(U64_MAX_DIGITS) /\ NumeralLeq(c, U64_MAX_DIGITS)

(***************************************************************************)
(* str::parse::<u64>: an optional leading "+", then one or more decimal    *)
(* digits, the value within u64; anything else is an error.                *)
(***************************************************************************)
ParseU64(part) ==
    LET body == IF part # <<>> /\ part[1] = "+" THEN Tail(part) ELSE part
    IN  IF body = <<>> \/ \E k \in 1..Len(body) : body[k] \notin DigitSet
        THEN Err("ParseIntError", part)
        ELSE IF FitsU64(Canon(body)) THEN Ok(Canon(body))
        ELSE Err("ParseIntError", part)

\* str::split('-'): the pieces between the dashes, empty pieces included
RECURSIVE SplitDash(_)
SplitDash(str) ==
    LET D == {i \in 1..Len(str) : str[i] = "-"}
    IN  IF D = {} THEN <<str>>
        ELSE LET i == CHOOSE x \in D : \A y \in D : x <= y
             IN  <<SubSeq(str, 1, i - 1)>> \o SplitDash(SubSeq(str, i + 1, Len(str)))

(***************************************************************************)
(* impl FromStr for Location                                               *)
(***************************************************************************)
Location_from_str(str) ==
    LET parts == SplitDash(str)
        parsed == [i \in 1..Len(parts) |-> ParseU64(parts[i])]
        separated_ok == \A i \in 1..Len(parts) : IsOk(parsed[i])
        values == [i \in 1..Len(parts) |-> parsed[i].val]
    IN  IF separated_ok
        THEN IF Len(values) = 2 THEN Ok(<<values[1], values[2]>>)
             ELSE IF Len(values) = 1 THEN Ok(<<values[1], values[1]>>)
             ELSE Err("InvalidLocation", str)
        ELSE Err("InvalidLocation", str)

(***************************************************************************)
(* impl FromStr for Page                                                   *)
(***************************************************************************)
Page_from_str(str) ==
    LET r == ParseU64(str)
    IN  IF IsOk(r) THEN Ok(r.val) ELSE Err("InvalidPage", str)

\* EntryType::from_str with a default arm: an unknown label becomes a Highlight
EntryType_from_str_default(str) ==
    IF str = StrNote THEN Ok("Note")
    ELSE IF str = StrBookmark THEN Ok("Bookmark")
    ELSE Ok("Highlight")

(***************************************************************************)
(* impl FromStr for EntryType                                              *)
(***************************************************************************)
EntryType_from_str(str) ==
    IF str = StrHighlight THEN Ok("Highlight")
    ELSE IF str = StrNote THEN Ok("Note")
    ELSE IF str = StrBookmark THEN Ok("Bookmark")
    ELSE Err("InvalidKind", str)

(***************************************************************************)
(* NaiveDateTime::parse_from_str(text, "%A, %B %-e, %Y %-l:%M:%S %p"):     *)
(* the parser's value on the date texts the model draws; every other text  *)
(* the model draws is one the format rejects.  A timestamp is              *)
(* <<year, month, day, hour, minute, second>>.                             *)
(***************************************************************************)
DateText1 == <<"T","u","e","s","d","a","y",","," ","M","a","r","c","h"," ","5",","," ","2","0","2","4"," ","7",":","4","2",":","1","0"," ","P","M">>
DateText2 == <<"F","r","i","d","a","y",","," ","M","a","y"," ","1",","," ","2","0","2","0"," ","1",":","0","0",":","0","0"," ","A","M">>

parse_from_str(text) ==
    IF text = DateText1 THEN Ok(<<2024, 3, 5, 19, 42, 10>>)
    ELSE IF text = DateText2 THEN Ok(<<2020, 5, 1, 1, 0, 0>>)
    ELSE Err("ParseError", text)

(***************************************************************************)
(* Regex captures: a match is [matched |-> TRUE, g |-> groups], where      *)
(* g[n] is <<>> for a group that did not take part and <<text>> for one    *)
(* that did (Captures::get(n) is None or Some).                            *)
(***************************************************************************)
NoMatch == [matched |-> FALSE, g |-> <<>>]
Match(gs) == [matched |-> TRUE, g |-> gs]

\* the header regex with a lazy first group, r"^(.*?) \((.*)\)$": the line is
\* cut at its first " ("
title_author_regex_lazy(line) ==
    LET n == Len(line)
        C == {i \in 1..n : /\ StartsAt(line, i, LitSpaceParen)
                           /\ i + 2 <= n
                           /\ line[n] = ")"}
    IN  IF C = {} THEN NoMatch
        ELSE LET i == CHOOSE x \in C : \A y \in C : x <= y
             IN  Match(<< <<SubSeq(line, 1, i - 1)>>,
                          <<SubSeq(line, i + 2, n - 1)>> >>)

\* Regex::new(r"^(.*) \((.*)\)$").captures(line): group 1 is greedy, so it
\* ends at the last " (" that still leaves the closing ")" at the end of the
\* line.
title_author_regex(line) ==
    LET n == Len(line)
        C == {i \in 1..n : /\ StartsAt(line, i, LitSpaceParen)
                           /\ i + 2 <= n
                           /\ line[n] = ")"}
    IN  IF C = {} THEN NoMatch
        ELSE LET i == SetMax(C)
             IN  Match(<< <<SubSeq(line, 1, i - 1)>>,
                          <<SubSeq(line, i + 2, n - 1)>> >>)

\* Regex::new(r"^- Your (.*) on( page ([0-9]+) \|)? Location ([0-9\-]+) \| Added on (.*)$")
\*     .captures(line), in three parts.
\* " Location ([0-9\-]+) \| Added on (.*)$" at index q of line
LocationDateAt(line, q) ==
    IF ~StartsAt(line, q, LitLocation) THEN NoMatch
    ELSE LET l1 == q + Len(LitLocation)
             lEnd == RunEnd(line, l1, LocChars)
         IN  IF lEnd >= l1 /\ StartsAt(line, lEnd + 1, LitAdded)
             THEN Match(<< <<SubSeq(line, l1, lEnd)>>,
                          <<SubSeq(line, lEnd + 1 + Len(LitAdded), Len(line))>> >>)
             ELSE NoMatch

\* " on( page ([0-9]+) \|)? Location ... $" at index j of line: the optional
\* group is tried first (greedy ?), then the match without it
MetaTailAt(line, j) ==
    IF ~StartsAt(line, j, LitOn) THEN NoMatch
    ELSE LET p == j + Len(LitOn)
             d1 == p + Len(LitPage)
             dEnd == RunEnd(line, d1, DigitSet)
             withPage ==
                 IF /\ StartsAt(line, p, LitPage)
                    /\ dEnd >= d1
                    /\ StartsAt(line, dEnd + 1, LitBar)
                 THEN LocationDateAt(line, dEnd + 1 + Len(LitBar))
                 ELSE NoMatch
             without == LocationDateAt(line, p)
         IN  IF withPage.matched
             THEN Match(<< <<SubSeq(line, p, dEnd + Len(LitBar))>>,
                          <<SubSeq(line, d1, dEnd)>>,
                          withPage.g[1], withPage.g[2] >>)
             ELSE IF without.matched
             THEN Match(<< <<>>, <<>>, without.g[1], without.g[2] >>)
             ELSE NoMatch

\* group 1 (.*) is greedy: the longest kind text after which the rest matches
kind_page_location_date_regex(line) ==
    IF ~StartsAt(line, 1, LitYour) THEN NoMatch
    ELSE LET k1 == Len(LitYour) + 1
             J == {j \in k1..Len(line) : MetaTailAt(line, j).matched}
         IN  IF J = {} THEN NoMatch
             ELSE LET j == SetMax(J)
                      t == MetaTailAt(line, j)
                  IN  Match(<< <<SubSeq(line, k1, j - 1)>> >> \o t.g)

(***************************************************************************)
(* fn parse_entry(lines: Vec<String>) -> Result<Entry, ParseError>         *)
(***************************************************************************)
\* lines 153-156: let title = match first_line_captures.get(1) { .. }?
title_of(c1) ==
    IF c1[1] = <<>> THEN Err("TitleNotFound", <<>>) ELSE Ok(c1[1][1])

\* lines 158-161: let author = match first_line_captures.get(2) { .. }?
author_of(c1) ==
    IF c1[2] = <<>> THEN Err("AuthorNotFound", <<>>) ELSE Ok(c1[2][1])

\* lines 163-166: let kind = match second_line_captures.get(1) { .. }?
kind_of(c2) ==
    IF c2[1] = <<>> THEN Err("KindNotFound", <<>>)
    ELSE EntryType_from_str(c2[1][1])

SomePage(r) == IF IsOk(r) THEN Ok(<<r.val>>) ELSE r

\* lines 168-171: let page: Option<Page> = match second_line_captures.get(3)
page_of(c2) ==
    IF c2[3] = <<>> THEN Ok(<<>>) ELSE SomePage(Page_from_str(c2[3][1]))

\* lines 173-176: let location = match second_line_captures.get(4) { .. }?
location_of(c2) ==
    IF c2[4] = <<>> THEN Err("LocationNotFound", <<>>)
    ELSE Location_from_str(c2[4][1])

\* lines 178-182: let date = match second_line_captures.get(5) { .. }?
date_of(c2) ==
    IF c2[5] = <<>> THEN Err("DateNotFound", <<>>)
    ELSE IF IsOk(parse_from_str(c2[5][1])) THEN parse_from_str(c2[5][1])
    ELSE Err("InvalidDate", c2[5][1])

\* lines 153-194: each ? returns the first error; then lines[3] and the Entry
Assemble(ls, title, author, kind, page, location, date) ==
    IF ~IsOk(title) THEN title
    ELSE IF ~IsOk(author) THEN author
    ELSE IF ~IsOk(kind) THEN kind
    ELSE IF ~IsOk(page) THEN page
    ELSE IF ~IsOk(location) THEN location
    ELSE IF ~IsOk(date) THEN date
    ELSE IF Len(ls) < 4 THEN Panic(184)
    ELSE Ok([title |-> title.val,
             author |-> author.val,
             kind |-> kind.val,
             page |-> page.val,
             location |-> location.val,
             creation_date |-> date.val,
             text |-> ls[4]])

\* lines 146-151: lines[1], the second regex and its unwrap()
SecondLine(ls, c1, second_line_captures) ==
    IF ~second_line_captures.matched THEN Panic(151)
    ELSE Assemble(ls, title_of(c1), author_of(c1),
                  kind_of(second_line_captures.g), page_of(second_line_captures.g),
                  location_of(second_line_captures.g), date_of(second_line_captures.g))

\* lines 143-144: lines[0], the first regex and its unwrap()
FirstLine(ls, first_line_captures) ==
    IF ~first_line_captures.matched THEN Panic(144)
    ELSE IF Len(ls) < 2 THEN Panic(150)
    ELSE SecondLine(ls, first_line_captures.g, kind_page_location_date_regex(ls[2]))

parse_entry(ls) ==
    IF Len(ls) < 1 THEN Panic(144)
    ELSE FirstLine(ls, title_author_regex(ls[1]))

(***************************************************************************)
(* Inputs of parse_entry called alone.  A group is rendered from parts:    *)
(* a header line from a title and an author (or a raw line), a metadata    *)
(* line from a label, an optional page, the numbers of a range and a date  *)
(* text (or a raw line), then a blank line, the body and further lines.    *)
(***************************************************************************)
TitleT == <<"T">>
TitleParen == <<"T"," ","(","x",")">>
TitleSpace == <<"a"," ","b">>
AuthorA == <<"A">>
AuthorOpen == <<"a"," ","(","b">>
AuthorParen == <<"(","c",")">>
RawNoParen == <<"x">>
RawNoSpace == <<"T","(","A",")">>
LabelUnderline == <<"U","n","d","e","r","l","i","n","e">>
LabelLower == <<"h","i","g","h","l","i","g","h","t">>
LabelOn == <<"N","o","t","e"," ","o","n">>
Page5 == <<"5">>
Page007 == <<"0","0","7">>
PageHuge == <<"9","9","9","9","9","9","9","9","9","9","9","9","9","9","9","9","9","9","9","9">>
Num10 == <<"1","0">>
Num20 == <<"2","0">>
Num30 == <<"3","0">>
NumOver == <<"1","8","4","4","6","7","4","4","0","7","3","7","0","9","5","5","1","6","1","6">>
DateBad == <<"y","e","s","t","e","r","d","a","y">>
DateEmbedded == <<"x"," ","o","n"," ","L","o","c","a","t","i","o","n"," ","2","0"," ","|"," ","A","d","d","e","d"," ","o","n"," ","y">>
RawMetaNoLoc == <<"-"," ","Y","o","u","r"," ","N","o","t","e"," ","o","n"," ","p","a","g","e"," ","5"," ","|"," ","A","d","d","e","d"," ","o","n"," ","x">>
RawMetaBadPage == <<"-"," ","Y","o","u","r"," ","N","o","t","e"," ","o","n"," ","p","a","g","e"," ","x"," ","|"," ","L","o","c","a","t","i","o","n"," ","1"," ","|"," ","A","d","d","e","d"," ","o","n"," ","x">>
TextBody == <<"a"," ","b">>

Titles == {TitleT, <<>>, TitleParen, TitleSpace}
Authors == {AuthorA, <<>>, AuthorOpen, AuthorParen}
RawHeaders == {RawNoParen, RawNoSpace}
KindLabels == {StrHighlight, StrNote, StrBookmark}
Labels == KindLabels \cup {LabelUnderline, LabelLower, LabelOn, <<>>}
Pages == {<<>>, <<Page5>>, <<Page007>>, <<PageHuge>>}
Ranges == {<<Num10>>, <<Num10, Num20>>, <<Num20, Num10>>, <<U64_MAX_DIGITS>>,
           <<Num10, Num20, Num30>>, <<Num10, <<>>>>, <<NumOver>>}
DateTexts == {DateText1, DateText2}
Dates == DateTexts \cup {DateBad, <<>>, DateEmbedded}
RawMetas == {RawNoParen, RawMetaNoLoc, RawMetaBadPage}
Texts == {TextBody, <<>>}

HeaderParts ==
    [built : {TRUE}, title : Titles, author : Authors, raw : {<<>>}]
    \cup [built : {FALSE}, title : {<<>>}, author : {<<>>}, raw : RawHeaders]
MetaParts ==
    [built : {TRUE}, label : Labels, page : Pages, range : Ranges,
     date : Dates, raw : {<<>>}]
    \cup [built : {FALSE}, label : {<<>>}, page : {<<>>}, range : {<<>>},
          date : {<<>>}, raw : RawMetas]
GroupParts ==
    [head : HeaderParts, meta : MetaParts, n : 1..MaxGroupLen, text : Texts]

\* the numbers of a range joined by "-"
RECURSIVE JoinDash(_)
JoinDash(ns) ==
    IF Len(ns) = 0 THEN <<>>
    ELSE IF Len(ns) = 1 THEN ns[1]
    ELSE ns[1] \o <<"-">> \o JoinDash(Tail(ns))

HeaderLine(h) ==
    IF h.built THEN h.title \o LitSpaceParen \o h.author \o <<")">> ELSE h.raw

MetaLine(m) ==
    IF m.built
    THEN LitYour \o m.label \o LitOn
         \o (IF m.page = <<>> THEN <<>> ELSE LitPage \o m.page[1] \o LitBar)
         \o LitLocation \o JoinDash(m.range) \o LitAdded \o m.date
    ELSE m.raw

\* the first gp.n lines of: header, metadata, blank, body, further lines
GroupOf(gp) ==
    SubSeq(<<HeaderLine(gp.head), MetaLine(gp.meta), <<>>, gp.text>>
           \o [i \in 1..MaxGroupLen |-> RawNoParen], 1, gp.n)

(***************************************************************************)
(* Inputs of Location::from_str called alone: every string over a small    *)
(* alphabet up to MaxLocLen characters, and the numerals around u64::MAX.  *)
(***************************************************************************)
LocAlphabet == {"1", "0", "-", "+", "a"}
LocInputs ==
    UNION {[1..n -> LocAlphabet] : n \in 0..MaxLocLen}
    \cup {U64_MAX_DIGITS, NumOver, JoinDash(<<Num10, Num20, Num30>>),
          JoinDash(<<U64_MAX_DIGITS, NumOver>>), JoinDash(<<Num20, Num10>>)}

(***************************************************************************)
(* Inputs of parse_lines: what the line iterator yields, item by item: a   *)
(* line read, or the error of a read that failed.  Streams are every       *)
(* sequence over a small item alphabet up to MaxLines items, and the       *)
(* streams made of up to MaxBlocks whole blocks.                           *)
(***************************************************************************)
Line(l) == [ok |-> TRUE, line |-> l]
IoError == [ok |-> FALSE, line |-> <<>>]

GoodHeader == TitleT \o LitSpaceParen \o AuthorA \o <<")">>
GoodMeta == LitYour \o StrNote \o LitOn \o LitLocation \o Num10 \o LitAdded \o DateText2
UnderlineMeta == LitYour \o LabelUnderline \o LitOn \o LitLocation \o Num10 \o LitAdded \o DateText2

ItemAlphabet ==
    {Line(SEPARATOR), Line(GoodHeader), Line(GoodMeta), Line(RawNoParen), IoError}

Blocks ==
    { <<Line(GoodHeader), Line(GoodMeta), Line(<<>>), Line(TextBody), Line(SEPARATOR)>>,
      <<Line(GoodHeader), Line(UnderlineMeta), Line(<<>>), Line(TextBody), Line(SEPARATOR)>>,
      <<Line(GoodHeader), Line(GoodMeta), Line(SEPARATOR)>>,
      <<Line(RawNoParen), Line(SEPARATOR)>>,
      <<Line(SEPARATOR)>>,
      <<Line(GoodHeader), IoError, Line(GoodMeta), Line(<<>>), Line(TextBody), Line(SEPARATOR)>> }

RECURSIVE Flat(_)
Flat(bs) == IF bs = <<>> THEN <<>> ELSE bs[1] \o Flat(Tail(bs))

Streams ==
    UNION {[1..n -> ItemAlphabet] : n \in 0..MaxLines}
    \cup {Flat(bs) : bs \in UNION {[1..n -> Blocks] : n \in 1..MaxBlocks}}

(***************************************************************************)
(* fn parse_lines(lines) -> Result<Vec<Entry>, ParseError>, one item of    *)
(* the line iterator per step:                                             *)
(*   lines.flatten()                     an Err item yields nothing        *)
(*        .group_by(|line| line != SEPARATOR)                              *)
(*        .filter(|(id, _)| *id)         separator runs are dropped        *)
(*        .map(|(_, group)| parse_entry(group.collect()))                  *)
(*        .collect()                     stops at the first Err            *)
(***************************************************************************)
Running == [tag |-> "Running"]
AtEnd == pos > Len(stream)

\* collect() into a plain Vec of the entries that parsed: a failing group is
\* skipped and the parse goes on
Collect_best_effort(r, last) ==
    /\ groups' = Append(groups, cur)
    /\ cur' = <<>>
    /\ entries' = IF IsOk(r) THEN Append(entries, r.val) ELSE entries
    /\ result' = IF last THEN Ok(entries') ELSE result
    /\ pc' = IF last THEN "done" ELSE pc

\* collect() on the outcome r of parse_entry for the group just completed:
\* an entry is kept, an error (or a panic) ends the parse; last tells that
\* the line iterator is exhausted
Collect(r, last) ==
    /\ groups' = Append(groups, cur)
    /\ cur' = <<>>
    /\ entries' = IF IsOk(r) THEN Append(entries, r.val) ELSE entries
    /\ result' = IF ~IsOk(r) THEN r
                 ELSE IF last THEN Ok(Append(entries, r.val)) ELSE result
    /\ pc' = IF ~IsOk(r) \/ last THEN "done" ELSE pc

\* without the filter on the group key: an empty run is handed to parse_entry
CloseGroup_unfiltered(last) == Collect(parse_entry(cur), last)

\* the run of lines accumulated so far ends: an empty run (the key is false,
\* or nothing was read) yields no group
CloseGroup(last) ==
    IF cur = <<>>
    THEN /\ UNCHANGED <<cur, entries, groups>>
         /\ result' = IF last THEN Ok(entries) ELSE result
         /\ pc' = IF last THEN "done" ELSE pc
    ELSE Collect(parse_entry(cur), last)

ReadLine ==
    /\ pc = "reading" /\ ~AtEnd
    /\ stream[pos].ok /\ stream[pos].line # SEPARATOR
    /\ cur' = Append(cur, stream[pos].line)
    /\ pos' = pos + 1
    /\ UNCHANGED <<stream, entries, groups, result, pc, lines, entry_result, s, loc_result>>

DropUnreadable ==
    /\ pc = "reading" /\ ~AtEnd
    /\ ~stream[pos].ok
    /\ pos' = pos + 1
    /\ UNCHANGED <<stream, cur, entries, groups, result, pc, lines, entry_result, s, loc_result>>

ReadSeparator ==
    /\ pc = "reading" /\ ~AtEnd
    /\ stream[pos].ok /\ stream[pos].line = SEPARATOR
    /\ pos' = pos + 1
    /\ CloseGroup(FALSE)
    /\ UNCHANGED <<stream, lines, entry_result, s, loc_result>>

EndOfStream ==
    /\ pc = "reading" /\ AtEnd
    /\ CloseGroup(TRUE)
    /\ UNCHANGED <<stream, pos, lines, entry_result, s, loc_result>>

Init ==
    /\ stream \in Streams
    /\ pos = 1
    /\ cur = <<>>
    /\ entries = <<>>
    /\ groups = <<>>
    /\ result = Running
    /\ pc = "reading"
    /\ lines = <<>>
    /\ entry_result = Running
    /\ s = <<>>
    /\ loc_result = Running

Next == ReadLine \/ DropUnreadable \/ ReadSeparator \/ EndOfStream

Spec == Init /\ [][Next]_vars

(***************************************************************************)
(* parse_entry called alone on a group rendered from parts.                *)
(***************************************************************************)
InitEntry ==
    /\ \E gp \in GroupParts : lines = [parts |-> gp, group |-> GroupOf(gp)]
    /\ entry_result = Running
    /\ pc = "call"
    /\ stream = <<>> /\ pos = 1 /\ cur = <<>> /\ entries = <<>> /\ groups = <<>>
    /\ result = Running
    /\ s = <<>> /\ loc_result = Running

CallParseEntry ==
    /\ pc = "call"
    /\ entry_result' = parse_entry(lines.group)
    /\ pc' = "done"
    /\ UNCHANGED <<stream, pos, cur, entries, groups, result, lines, s, loc_result>>

NextEntry == CallParseEntry

SpecEntry == InitEntry /\ [][NextEntry]_vars

(***************************************************************************)
(* Location::from_str called alone.                                        *)
(***************************************************************************)
InitLocation ==
    /\ s \in LocInputs
    /\ loc_result = Running
    /\ pc = "call"
    /\ stream = <<>> /\ pos = 1 /\ cur = <<>> /\ entries = <<>> /\ groups = <<>>
    /\ result = Running
    /\ lines = <<>> /\ entry_result = Running

CallLocationFromStr ==
    /\ pc = "call"
    /\ loc_result' = Location_from_str(s)
    /\ pc' = "done"
    /\ UNCHANGED <<stream, pos, cur, entries, groups, result, lines, entry_result, s>>

NextLocation == CallLocationFromStr

SpecLocation == InitLocation /\ [][NextLocation]_vars


(***************************************************************************)
(* Reference notions the properties are stated with.  They are defined on  *)
(* the inputs, apart from the program's operators above.                   *)
(***************************************************************************)
\* the lines the iterator read successfully, in order
OkLines(items) ==
    LET I == {i \in 1..Len(items) : items[i].ok}
        nth(k) == CHOOSE i \in I : Cardinality({j \in I : j < i}) = k - 1
    IN  [k \in 1..Cardinality(I) |-> items[nth(k)].line]

\* the maximal runs of consecutive lines different from the separator line
Runs(ls) ==
    LET n == Len(ls)
        Starts == {a \in 1..n : ls[a] # SEPARATOR /\ (a = 1 \/ ls[a - 1] = SEPARATOR)}
        start(k) == CHOOSE a \in Starts : Cardinality({b \in Starts : b < a}) = k - 1
        stop(a) == CHOOSE b \in a..n :
                       /\ \A k \in a..b : ls[k] # SEPARATOR
                       /\ (b = n \/ ls[b + 1] = SEPARATOR)
    IN  [k \in 1..Cardinality(Starts) |-> SubSeq(ls, start(k), stop(start(k)))]

\* a run of decimal digits whose value fits in 64 unsigned bits
IsU64Numeral(ds) ==
    /\ ds # <<>>
    /\ \A k \in 1..Len(ds) : ds[k] \in DigitSet
    /\ FitsU64(Canon(ds))

KindName(label) ==
    CASE label = StrHighlight -> "Highlight"
      [] label = StrNote -> "Note"
      [] label = StrBookmark -> "Bookmark"
      [] OTHER -> "none"

HasOn(str) == \E i \in 1..Len(str) : StartsAt(str, i, LitOn)
HasSpaceParen(str) == \E i \in 1..Len(str) : StartsAt(str, i, LitSpaceParen)

\* the parts of the group parse_entry was called on
Done == pc = "done"
HeadBuilt == lines.parts.head.built
MetaBuilt == lines.parts.meta.built /\ lines.parts.n >= 2
PageGood ==
    lines.parts.meta.page = <<>> \/ IsU64Numeral(lines.parts.meta.page[1])
RangeGood ==
    /\ Len(lines.parts.meta.range) \in {1, 2}
    /\ \A k \in 1..Len(lines.parts.meta.range) : IsU64Numeral(lines.parts.meta.range[k])
DateGood == lines.parts.meta.date \in DateTexts
KindGood == lines.parts.meta.label \in KindLabels
\* lines 0 and 1 are well-formed
HeadersGood ==
    HeadBuilt /\ MetaBuilt /\ KindGood /\ PageGood /\ RangeGood /\ DateGood

\* the entry whose fields are the values the group was built from
BuiltEntryMatches(e) ==
    /\ e.title = lines.parts.head.title
    /\ e.author = lines.parts.head.author
    /\ e.kind = KindName(lines.parts.meta.label)
    /\ e.page = IF lines.parts.meta.page = <<>> THEN <<>>
                ELSE <<Canon(lines.parts.meta.page[1])>>
    /\ e.location = <<Canon(lines.parts.meta.range[1]),
                      Canon(lines.parts.meta.range[Len(lines.parts.meta.range)])>>
    /\ e.text = lines.parts.text

(***************************************************************************)
(* C1.  parse_lines is fail-fast and whole-file-atomic: when it has        *)
(* ended, the result is Ok with the entries of all the groups, in order,   *)
(* only if parse_entry succeeds on every group; otherwise it is exactly    *)
(* the outcome of the first failing group in file order, it carries no     *)
(* entry list, and the groups handed to parse_entry are those up to the    *)
(* failing one and none after it.                                          *)
(***************************************************************************)
C1_FailFastAtomic ==
    Done =>
        LET rs == Runs(OkLines(stream))
            F == {i \in 1..Len(rs) : ~IsOk(parse_entry(rs[i]))}
        IN  IF F = {}
            THEN /\ result = Ok([i \in 1..Len(rs) |-> parse_entry(rs[i]).val])
                 /\ Len(groups) = Len(rs)
            ELSE LET f == CHOOSE i \in F : \A j \in F : i <= j
                 IN  /\ result = parse_entry(rs[f])
                     /\ ~IsOk(result)
                     /\ groups = SubSeq(rs, 1, f)

\* an error ended the parse after an entry was extracted and before a later
\* group was
C1_Witness ==
    /\ Done /\ IsErr(result) /\ result.err = "InvalidKind"
    /\ entries # <<>>
    /\ Len(Runs(OkLines(stream))) > Len(groups)

(***************************************************************************)
(* C2.  A header line that does not match its pattern is reported as an    *)
(* error value, never as an abort: if line 0 does not match                *)
(* <title> (<author>) the result is Err(TitleNotFound) or                  *)
(* Err(AuthorNotFound); if line 1 is missing or does not match the         *)
(* metadata pattern the result is Err(KindNotFound), Err(LocationNotFound) *)
(* or Err(DateNotFound).                                                   *)
(***************************************************************************)
C2_HeaderMismatchIsErr ==
    Done =>
        /\ ~HeadBuilt =>
               /\ IsErr(entry_result)
               /\ entry_result.err \in {"TitleNotFound", "AuthorNotFound"}
        /\ (HeadBuilt /\ ~MetaBuilt) =>
               /\ IsErr(entry_result)
               /\ entry_result.err \in {"KindNotFound", "LocationNotFound", "DateNotFound"}

(***************************************************************************)
(* C3.  The body text line is optional: for a group whose lines 0 and 1    *)
(* are well-formed, parse_entry returns Ok(Entry) with text equal to line  *)
(* 3 when the group has at least 4 lines and with the empty text when it   *)
(* has only 2 or 3 lines.                                                  *)
(***************************************************************************)
C3_TextOptional ==
    (Done /\ HeadersGood) =>
        /\ IsOk(entry_result)
        /\ entry_result.val.text =
               IF Len(lines.group) >= 4 THEN lines.group[4] ELSE <<>>

(***************************************************************************)
(* C4, as stated.  The entry kind is a closed set decoded by exact,        *)
(* case-sensitive match: for every metadata line                           *)
(* - Your <L> on[ page <N> |] Location <range> | Added on <date>, the kind *)
(* step succeeds, with kind Highlight, Note or Bookmark, exactly when L is *)
(* that literal label (the result is then the Entry of that kind, or the   *)
(* failure of a later step); for every other label L the result is         *)
(* Err(InvalidKind(L)) carrying the label text.                            *)
(***************************************************************************)
KindDecoded ==
    IF KindGood
    THEN /\ IsErr(entry_result) =>
                entry_result.err \in {"InvalidPage", "InvalidLocation", "InvalidDate"}
         /\ IsPanic(entry_result) => Len(lines.group) < 4
         /\ IsOk(entry_result) =>
                entry_result.val.kind = KindName(lines.parts.meta.label)
         /\ (PageGood /\ RangeGood /\ DateGood /\ Len(lines.group) >= 4) =>
                IsOk(entry_result)
    ELSE entry_result = Err("InvalidKind", lines.parts.meta.label)

C5_Segmentation ==
    LET rs == Runs(OkLines(stream))
    IN  /\ Len(groups) <= Len(rs)
        /\ groups = SubSeq(rs, 1, Len(groups))
        /\ \A i \in 1..Len(groups) :
               /\ groups[i] # <<>>
               /\ \A k \in 1..Len(groups[i]) : groups[i][k] # SEPARATOR
        /\ (Done /\ IsOk(result)) => (groups = rs /\ Len(result.val) = Len(rs))
        /\ (Done /\ \A k \in 1..Len(OkLines(stream)) : OkLines(stream)[k] = SEPARATOR)
               => (result = Ok(<<>>) /\ groups = <<>>)

\* two groups were extracted from a stream that also holds a run of two
\* separator lines
C5_Witness ==
    /\ Done /\ IsOk(result) /\ Len(groups) = 2
    /\ \E i \in 1..(Len(stream) - 1) :
           stream[i] = Line(SEPARATOR) /\ stream[i + 1] = Line(SEPARATOR)

(***************************************************************************)
(* C6, as stated.  Round trip on synthetic input: a group built from a     *)
(* title, an author, a kind, an optional page, a location range, a date    *)
(* text and a body text parses to the Entry with exactly those values,     *)
(* also when the title or the author holds parentheses or spaces.          *)
(***************************************************************************)
C6_RoundTripAnyAuthor ==
    (Done /\ HeadersGood /\ lines.parts.n >= 4) =>
        (IsOk(entry_result) /\ BuiltEntryMatches(entry_result.val))

(***************************************************************************)
(* C6, amended.  The round trip holds provided the author does not hold a  *)
(* space directly followed by an opening parenthesis: the title capture is *)
(* greedy, so the header line is cut at its last " (".                     *)
(***************************************************************************)
C6_RoundTrip ==
    (Done /\ HeadersGood /\ lines.parts.n >= 4
          /\ ~HasSpaceParen(lines.parts.head.author)) =>
        (IsOk(entry_result) /\ BuiltEntryMatches(entry_result.val))

\* a title and an author that both hold parentheses, with a page and a range
C6_Witness ==
    /\ Done /\ HeadersGood /\ lines.parts.n >= 4
    /\ lines.parts.head.title = TitleParen
    /\ lines.parts.head.author = AuthorParen
    /\ lines.parts.meta.page = <<Page007>>
    /\ Len(lines.parts.meta.range) = 2
    /\ IsOk(entry_result)
    /\ entry_result.val.title = TitleParen

(***************************************************************************)
(* C7.  Location::from_str(s): Location(N, N) when s is one run of decimal *)
(* digits N, Location(N, M) when s is N-M with N and M runs of decimal     *)
(* digits, in the order written; in every other case (more parts, an empty *)
(* part, a part that is not digits, a value beyond 64 unsigned bits)       *)
(* Err(InvalidLocation(s)) with the whole input as payload.                *)
(***************************************************************************)
C7_LocationFromStr ==
    Done =>
        IF IsU64Numeral(s)
        THEN loc_result = Ok(<<Canon(s), Canon(s)>>)
        ELSE IF \E i \in 1..Len(s) :
                    /\ s[i] = "-"
                    /\ IsU64Numeral(SubSeq(s, 1, i - 1))
                    /\ IsU64Numeral(SubSeq(s, i + 1, Len(s)))
        THEN LET i == CHOOSE i \in 1..Len(s) : s[i] = "-"
             IN  loc_result = Ok(<<Canon(SubSeq(s, 1, i - 1)),
                                   Canon(SubSeq(s, i + 1, Len(s)))>>)
        ELSE loc_result = Err("InvalidLocation", s)

(***************************************************************************)
(* C8.  Every Entry parse_entry returns has a non-empty title.             *)
(***************************************************************************)
C8_TitleNonEmpty ==
    (Done /\ IsOk(entry_result)) => entry_result.val.title # <<>>

(***************************************************************************)
(* C9.  A failure to read a line is surfaced and ends the parse: when a    *)
(* read has yielded an I/O error, parse_lines returns FileReadError and    *)
(* no line after the failing read is grouped or extracted.                 *)
(***************************************************************************)
C9_ReadErrorSurfaced ==
    (Done /\ \E i \in 1..(pos - 1) : ~stream[i].ok) =>
        /\ IsErr(result) /\ result.err = "FileReadError"
        /\ \A i \in 1..(pos - 1) : ~stream[i].ok => pos = i + 1

(***************************************************************************)
(* C10.  Error precedence inside parse_entry: the error returned for a     *)
(* group with faults is that of the earliest faulty step in the order      *)
(* title/author, kind, page, location, date.                               *)
(***************************************************************************)
C10_ErrorPrecedence ==
    (Done /\ lines.parts.meta.built /\ lines.parts.n >= 2) =>
        IF ~HeadBuilt
        THEN IsErr(entry_result)
             /\ entry_result.err \in {"TitleNotFound", "AuthorNotFound"}
        ELSE IF ~KindGood
        THEN IsErr(entry_result) /\ entry_result.err = "InvalidKind"
        ELSE IF ~PageGood
        THEN IsErr(entry_result) /\ entry_result.err = "InvalidPage"
        ELSE IF ~RangeGood
        THEN IsErr(entry_result) /\ entry_result.err = "InvalidLocation"
        ELSE IF ~DateGood
        THEN IsErr(entry_result) /\ entry_result.err = "InvalidDate"
        ELSE TRUE


=============================================================================
